---- MODULE Spec2Model ----
(***************************************************************************)
(* Model of the tool-calling agent of src/main.py: the read loop           *)
(* CodingAgent.run, the orchestration loop process_user_input, the         *)
(* dispatch execute_tool, the executors and the Spinner thread.            *)
(*                                                                         *)
(* Conventions.                                                            *)
(*  - A Python str that the code takes apart (cmd, paths) is a sequence of *)
(*    one-character strings; a text the code builds is a sequence of       *)
(*    pieces (literal fragments and characters).                           *)
(*  - An optional value is a sequence of length 0 (None) or 1.             *)
(*  - A Python call returns a record: raised tells whether it raised.      *)
(***************************************************************************)
EXTENDS Integers, Sequences, FiniteSets, TLC

(* ------------------------------ bounds --------------------------------- *)
\* what the world outside does in one session, counted together: the --debug
\* flag given, an input typed or an interrupt by the user, a request to the
\* model answered or failed, a text in the answer, a tool call after the
\* first in the answer
MaxEvents == 7
\* length of a cmd string given to run_command in SpecCmd
MaxCmdLen == 5
\* calls of write_file and read_file in SpecFile
MaxOps == 3

(* ------------------------- program constants --------------------------- *)
\* for _ in range(5)
MaxRounds_m == 5 + 1
MaxRounds == 5

None == <<>>
Some(v) == <<v>>
Last(s) == s[Len(s)]

\* x or "" for an optional str
OrEmpty(opt) == IF opt = None THEN "" ELSE opt[1]

\* truth value of an optional list: None and [] are falsy
Truthy_m(opt) == opt # None
Truthy(opt) == opt # None /\ opt[1] # <<>>

\* colorama codes, kept as pieces of the texts
FRED == "<RED>"
FGREEN == "<GREEN>"
FYELLOW == "<YELLOW>"
RESET == "<RESET>"

(* ----------------------------- Python calls ---------------------------- *)
\* spawn: the command lines handed to the shell; writes: the files written
\* called: the executor that was entered, if any; mkdirs: the directories
\* created; sent: the HTTP requests sent
Ret(text, spawned, written) ==
    [raised |-> FALSE, val |-> text, err |-> "", spawn |-> spawned, writes |-> written,
     called |-> <<>>, mkdirs |-> {}, sent |-> 0]
Raise(e, spawned, written) ==
    [raised |-> TRUE, val |-> <<>>, err |-> e, spawn |-> spawned, writes |-> written,
     called |-> <<>>, mkdirs |-> {}, sent |-> 0]

(* ------------------------------ JSON values ---------------------------- *)
JObj(f) == [kind |-> "object", str |-> <<>>, fields |-> f]
JStr(s) == [kind |-> "string", str |-> s, fields |-> <<>>]
JInt == [kind |-> "number", str |-> <<>>, fields |-> <<>>]
JArr == [kind |-> "array", str |-> <<>>, fields |-> <<>>]

\* serialized arguments the model sends
RawDenied == "{\"cmd\": \"sl\"}"
RawAllowed == "{\"cmd\": \"ls\"}"
RawEmpty == "{}"
RawExtra == "{\"cmd\": \"sl\", \"x\": 1}"
RawWrongType == "{\"cmd\": 5}"
RawPath == "{\"path\": \"s\"}"
RawWrite == "{\"path\": \"s\", \"content\": \"l\"}"
RawQuery == "{\"query\": \"s\", \"num_results\": 5}"
RawArray == "[1]"
RawBad == "{bad"
Raws ==
    {RawDenied, RawAllowed, RawEmpty, RawExtra, RawWrongType, RawPath, RawWrite, RawQuery,
     RawArray, RawBad}

\* json.loads on the serialized forms above: a value, or JSONDecodeError
json_loads(raw) ==
    CASE raw = RawDenied -> [raised |-> FALSE, val |-> JObj([cmd |-> JStr(<<"s", "l">>)])]
      [] raw = RawAllowed -> [raised |-> FALSE, val |-> JObj([cmd |-> JStr(<<"l", "s">>)])]
      [] raw = RawEmpty -> [raised |-> FALSE, val |-> JObj(<<>>)]
      [] raw = RawExtra -> [raised |-> FALSE, val |-> JObj([cmd |-> JStr(<<"s", "l">>), x |-> JInt])]
      [] raw = RawWrongType -> [raised |-> FALSE, val |-> JObj([cmd |-> JInt])]
      [] raw = RawPath -> [raised |-> FALSE, val |-> JObj([path |-> JStr(<<"s">>)])]
      [] raw = RawWrite ->
            [raised |-> FALSE, val |-> JObj([path |-> JStr(<<"s">>), content |-> JStr(<<"l">>)])]
      [] raw = RawQuery ->
            [raised |-> FALSE, val |-> JObj([query |-> JStr(<<"s">>), num_results |-> JInt])]
      [] raw = RawArray -> [raised |-> FALSE, val |-> JArr]
      [] OTHER -> [raised |-> TRUE, val |-> JArr]

(* ------------------------------ str.split ------------------------------ *)
IsWs(c) == c \in {" ", "\t", "\n", "\r", "\f"}

RECURSIVE RunLen(_)
\* length of the leading run of non-whitespace characters
RunLen(s) == IF s = <<>> \/ IsWs(Head(s)) THEN 0 ELSE 1 + RunLen(Tail(s))

RECURSIVE Split(_)
\* cmd.split(): the maximal runs of non-whitespace characters
Split(s) ==
    IF s = <<>> THEN <<>>
    ELSE IF IsWs(Head(s)) THEN Split(Tail(s))
    ELSE <<SubSeq(s, 1, RunLen(s))>> \o Split(SubSeq(s, RunLen(s) + 1, Len(s)))

(* ------------------------------ environment ---------------------------- *)
\* What the world outside the process answers to one executor: whether the
\* external operation (subprocess.run, file I/O, requests.post) raises, the
\* finished process, the directory test, the glob matches, the API key and
\* the HTTP status.
\* items: what iterdir yields, in its order; found: what glob yields, in
\* its order; key: EXA_API_KEY in the environment, if set; status and
\* results: the answer of the search API
NoEnv ==
    [fails |-> FALSE, returncode |-> 0, stdout |-> <<>>, stderr |-> <<>>,
     isdir |-> TRUE, items |-> <<>>, found |-> <<>>, key |-> <<>>, status |-> 200,
     results |-> <<>>]
ProcEnvs ==
    {[NoEnv EXCEPT !.fails = f, !.returncode = rc, !.stdout = o, !.stderr = e] :
        f \in BOOLEAN, rc \in {0, 1}, o \in {<<>>, <<"o">>}, e \in {<<>>, <<"e">>}}
FileEnvs == {[NoEnv EXCEPT !.fails = f] : f \in BOOLEAN}
DirEnvs ==
    {[NoEnv EXCEPT !.fails = f, !.isdir = d, !.found = m, !.items = it] :
        f \in BOOLEAN, d \in BOOLEAN, m \in {<<>>, << <<"s">> >>},
        it \in {<<>>, <<[name |-> <<"s">>, isdir |-> FALSE]>>}}
ApiKeys == {<<>>, <<<<>>>>, <<<<"k">>>>}
SearchResults == {<<>>, <<[title |-> <<"t">>, url |-> <<"u">>, text |-> <<"x">>]>>}
WebEnvs ==
    {[NoEnv EXCEPT !.fails = f, !.key = k, !.status = st, !.results = rs] :
        f \in BOOLEAN, k \in ApiKeys, st \in {200, 500}, rs \in SearchResults}

\* str(x) inside an f-string
Show(v) == IF v.kind = "string" THEN v.str ELSE <<"<", v.kind, ">">>

(* ------------------------------- executors ----------------------------- *)
allowed_commands ==
    {<<"l", "s">>, <<"d", "i", "r">>, <<"f", "i", "n", "d">>, <<"g", "r", "e", "p">>,
     <<"c", "a", "t">>, <<"h", "e", "a", "d">>, <<"t", "a", "i", "l">>, <<"w", "c">>,
     <<"e", "c", "h", "o">>}

\* the test of line 411, negated: the command may run
Permitted_m(cmd_parts) == \E i \in 1..Len(cmd_parts) : cmd_parts[i] \in allowed_commands
Permitted(cmd_parts) == cmd_parts # <<>> /\ cmd_parts[1] \in allowed_commands

DeniedText(cmd_parts) ==
    <<FRED, "Error: Command '">> \o (IF cmd_parts # <<>> THEN cmd_parts[1] ELSE <<>>)
        \o <<"' is not allowed for security reasons", RESET>>

\* a run_command that reports the captured stdout whatever the exit code
run_command_try_m(cmd, env) ==
    IF cmd.kind # "string" THEN Raise("AttributeError", {}, {})
    ELSE IF ~Permitted(Split(cmd.str)) THEN Ret(DeniedText(Split(cmd.str)), {}, {})
    ELSE IF env.fails THEN Raise("OSError", {cmd.str}, {})
    ELSE Ret(<<FGREEN, "Command output:", RESET, "\n">> \o env.stdout, {cmd.str}, {})

\* the try block of run_command
run_command_try(cmd, env) ==
    IF cmd.kind # "string" THEN Raise("AttributeError", {}, {})
    ELSE IF ~Permitted(Split(cmd.str)) THEN Ret(DeniedText(Split(cmd.str)), {}, {})
    ELSE IF env.fails THEN Raise("OSError", {cmd.str}, {})
    ELSE IF env.returncode = 0
         THEN IF env.stdout = <<>>
              THEN Ret(<<FGREEN, "Command '">> \o cmd.str
                           \o <<"' executed successfully with no output", RESET>>,
                       {cmd.str}, {})
              ELSE Ret(<<FGREEN, "Command output:", RESET, "\n">> \o env.stdout, {cmd.str}, {})
         ELSE Ret(<<FRED, "Command failed with error:", RESET, "\n">> \o env.stderr,
                  {cmd.str}, {})

run_command(cmd, env) ==
    LET r == run_command_try(cmd, env)
    IN  IF r.raised
        THEN Ret(<<FRED, "Error executing command '">> \o Show(cmd) \o <<"': ", r.err, RESET>>,
                 r.spawn, r.writes)
        ELSE r

(* ------------------------------- files --------------------------------- *)
\* a lone surrogate, which a JSON escape can put into a str
SURR == "<surrogate>"
\* os.linesep
linesep == <<"\n">>

RECURSIVE NameLen(_)
\* length of the leading run of characters other than "/"
NameLen(s) == IF s = <<>> \/ Head(s) = "/" THEN 0 ELSE 1 + NameLen(Tail(s))

RECURSIVE Components(_)
\* the names between the "/" of a path
Components(s) ==
    IF s = <<>> THEN <<>>
    ELSE IF Head(s) = "/" THEN Components(Tail(s))
    ELSE <<SubSeq(s, 1, NameLen(s))>> \o Components(SubSeq(s, NameLen(s) + 1, Len(s)))

\* (self.current_directory / path).resolve() for a relative path without
\* "..": the names of the path below the current directory, "." dropped
Resolve(path) == SelectSeq(Components(path), LAMBDA n : n # <<".">>)

\* the proper, non-empty prefixes of the parent of a resolved path
Parents(file_path) == {SubSeq(file_path, 1, n) : n \in 1..(Len(file_path) - 1)}

RECURSIVE TranslateOut(_)
\* text mode on writing: "\n" becomes os.linesep
TranslateOut(t) ==
    IF t = <<>> THEN <<>>
    ELSE (IF Head(t) = "\n" THEN linesep ELSE <<Head(t)>>) \o TranslateOut(Tail(t))

RECURSIVE TranslateIn(_)
\* text mode on reading (universal newlines): "\r\n" and "\r" become "\n"
TranslateIn(t) ==
    IF t = <<>> THEN <<>>
    ELSE IF Head(t) = "\r"
         THEN <<"\n">> \o TranslateIn(IF Len(t) > 1 /\ t[2] = "\n" THEN Tail(Tail(t)) ELSE Tail(t))
         ELSE <<Head(t)>> \o TranslateIn(Tail(t))

\* str.encode("utf-8") fails on a lone surrogate
Encodable(t) == \A i \in 1..Len(t) : t[i] # SURR

read_file(fs, path, env) ==
    IF path.kind # "string" \/ env.fails \/ Resolve(path.str) \notin DOMAIN fs
    THEN Ret(<<FRED, "Error reading file ">> \o Show(path) \o <<": ", "OSError", RESET>>, {}, {})
    ELSE Ret(<<"Content of ">> \o path.str \o <<":\n">> \o TranslateIn(fs[Resolve(path.str)]),
             {}, {})

ErrorWriting(path, e) == <<FRED, "Error writing to file ">> \o Show(path) \o <<": ", e, RESET>>

\* line 360 creates the parents, line 361 opens (and so empties) the file
\* and then writes the encoded text
write_file(fs, dirs, path, content, env) ==
    IF path.kind # "string" THEN Ret(ErrorWriting(path, "TypeError"), {}, {})
    ELSE LET file_path == Resolve(path.str)
             made == Parents(file_path) \ dirs
         IN  IF \E d \in Parents(file_path) : d \in DOMAIN fs
             THEN Ret(ErrorWriting(path, "FileExistsError"), {}, {})
             ELSE IF content.kind # "string"
             THEN [Ret(ErrorWriting(path, "TypeError"), {}, {}) EXCEPT !.mkdirs = made]
             ELSE IF file_path = <<>> \/ file_path \in dirs \/ env.fails
             THEN [Ret(ErrorWriting(path, "OSError"), {}, {}) EXCEPT !.mkdirs = made]
             ELSE IF ~Encodable(content.str)
             THEN [Ret(ErrorWriting(path, "UnicodeEncodeError"), {}, {<<file_path, <<>>>>})
                      EXCEPT !.mkdirs = made]
             ELSE [Ret(<<FGREEN, "Successfully created file ">> \o path.str
                           \o <<". The file now contains ", ToString(Len(content.str)),
                                " characters.", RESET>>,
                       {}, {<<file_path, TranslateOut(content.str)>>})
                      EXCEPT !.mkdirs = made]

(* ----------------------------- directories ----------------------------- *)
FCYAN == "<CYAN>"
FOLDER == "<folder> "
PAGE == "<page> "

\* the code point that decides a comparison of two str at a piece: of a
\* character its own, of a colorama code that of its first character, ESC
Code(c) ==
    CASE c = "\t" -> 9
      [] c \in {FRED, FGREEN, FYELLOW, FCYAN, RESET} -> 27
      [] c = "-" -> 45
      [] c = "." -> 46
      [] c = "/" -> 47
      [] c = "a" -> 97
      [] c = "b" -> 98
      [] c = "s" -> 115
      [] OTHER -> 128

RECURSIVE StrLess(_, _)
\* a < b on two str
StrLess(a, b) ==
    IF a = <<>> THEN b # <<>>
    ELSE IF b = <<>> THEN FALSE
    ELSE IF Head(a) = Head(b) THEN StrLess(Tail(a), Tail(b))
    ELSE Code(Head(a)) < Code(Head(b))

\* sorted(l) on a list of different str
Sorted(l) == SortSeq(l, StrLess)

RECURSIVE Join(_, _)
\* sep.join(l)
Join(sep, l) ==
    IF l = <<>> THEN <<>>
    ELSE IF Len(l) = 1 THEN l[1]
    ELSE l[1] \o <<sep>> \o Join(sep, Tail(l))

\* lines 375-385: the two lists of formatted entries, in the order of iterdir
DirLines(items) ==
    LET ds == SelectSeq(items, LAMBDA item : item.isdir)
    IN  [i \in 1..Len(ds) |-> <<FCYAN, FOLDER>> \o ds[i].name \o <<"/", RESET>>]
FileLines(items) ==
    LET fl == SelectSeq(items, LAMBDA item : ~item.isdir)
    IN  [i \in 1..Len(fl) |-> <<FYELLOW, PAGE>> \o fl[i].name \o <<RESET>>]

\* the resolved directory in the heading
Absolute(path) == <<"<cwd>">> \o Join("/", <<<<>>>> \o Resolve(path))

list_files(path, env) ==
    IF path.kind # "string" \/ env.fails
    THEN Ret(<<FRED, "Error listing files in ">> \o Show(path) \o <<": ", "OSError", RESET>>,
             {}, {})
    ELSE IF ~env.isdir
    THEN Ret(<<FRED, "Error: ">> \o path.str \o <<" is not a directory", RESET>>, {}, {})
    ELSE LET all_items == Sorted(DirLines(env.items)) \o Sorted(FileLines(env.items))
         IN  Ret(<<"Contents of ">> \o Absolute(path.str) \o <<":\n">> \o Join("\n", all_items),
                 {}, {})

find_files(pattern, env) ==
    IF pattern.kind # "string" \/ env.fails
    THEN Ret(<<FRED, "Error finding files with pattern '">> \o Show(pattern)
                 \o <<"': ", "OSError", RESET>>, {}, {})
    ELSE IF env.found # <<>>
    THEN LET file_list ==
                 Join("\n", [i \in 1..Len(env.found) |-> <<FYELLOW>> \o env.found[i] \o <<RESET>>])
         IN  Ret(<<FGREEN, "Found ", ToString(Len(env.found)), " files matching '">> \o pattern.str
                     \o <<"':", RESET, "\n">> \o file_list, {}, {})
    ELSE Ret(<<FYELLOW, "No files found matching '">> \o pattern.str \o <<"'", RESET>>, {}, {})

(* ------------------------------ web search ----------------------------- *)
\* "if not api_key", negated: the key is set and not empty
Configured_m(api_key) == api_key # <<>>
Configured(api_key) == api_key # <<>> /\ api_key[1] # <<>>

\* int(num_results) returns: on a number, and on a str of digits
Digits == {"0", "1", "2", "3", "4", "5", "6", "7", "8", "9"}
IntOk(v) ==
    \/ v.kind = "number"
    \/ v.kind = "string" /\ v.str # <<>> /\ \A i \in 1..Len(v.str) : v.str[i] \in Digits

\* text[:150] + "..." if len(text) > 150 else text
SnippetLen == 150
Snippet(text) == IF Len(text) > SnippetLen THEN SubSeq(text, 1, SnippetLen) \o <<"...">> ELSE text

RECURSIVE FormatResults(_, _)
\* lines 457-465: the numbered entries
FormatResults(items, i) ==
    IF items = <<>> THEN <<>>
    ELSE <<ToString(i), ". ">> \o Head(items).title \o <<"\n", "   URL: ">> \o Head(items).url
             \o <<"\n", "   Description: ">> \o Snippet(Head(items).text) \o <<"\n\n">>
             \o FormatResults(Tail(items), i + 1)

web_search(query, num_results, env) ==
    IF ~Configured(env.key) THEN Ret(<<"Error: Exa API key not configured.">>, {}, {})
    ELSE IF ~IntOk(num_results)
    THEN Ret(<<"Error executing web search: ", "ValueError">>, {}, {})
    ELSE IF env.fails
    THEN [Ret(<<"Error executing web search: ", "RequestException">>, {}, {}) EXCEPT !.sent = 1]
    ELSE IF env.status # 200
    THEN [Ret(<<"Error: Exa API returned status code ", ToString(env.status)>>, {}, {})
             EXCEPT !.sent = 1]
    ELSE IF env.results = <<>>
    THEN [Ret(<<"No results found for query: '">> \o Show(query) \o <<"'">>, {}, {})
             EXCEPT !.sent = 1]
    ELSE [Ret(<<"Search results for '">> \o Show(query) \o <<"':\n\n">>
                  \o FormatResults(env.results, 1), {}, {})
             EXCEPT !.sent = 1]

(* ------------------------------- dispatch ------------------------------ *)
ToolNames == {"read_file", "write_file", "list_files", "find_files", "run_command", "web_search"}

\* the parameters of each executor: required, and with a default
Required(name) ==
    CASE name = "read_file" -> {"path"}
      [] name = "write_file" -> {"path", "content"}
      [] name = "list_files" -> {}
      [] name = "find_files" -> {"pattern"}
      [] name = "run_command" -> {"cmd"}
      [] name = "web_search" -> {"query"}
Defaulted(name) ==
    CASE name = "list_files" -> {"path"}
      [] name = "web_search" -> {"num_results"}
      [] OTHER -> {}

\* tools[tool_name](**params): TypeError unless params is a mapping whose keys
\* are parameters of the executor and cover the required ones
CallKw(name, params, fs, dirs, env) ==
    IF params.kind # "object" THEN Raise("TypeError", {}, {})
    ELSE LET a == params.fields
             keys == DOMAIN a
         IN  IF ~(keys \subseteq Required(name) \cup Defaulted(name)) \/ ~(Required(name) \subseteq keys)
             THEN Raise("TypeError", {}, {})
             ELSE [(CASE name = "read_file" -> read_file(fs, a.path, env)
                      [] name = "write_file" -> write_file(fs, dirs, a.path, a.content, env)
                      [] name = "list_files" ->
                            list_files(IF "path" \in keys THEN a.path ELSE JStr(<<".">>), env)
                      [] name = "find_files" -> find_files(a.pattern, env)
                      [] name = "run_command" -> run_command(a.cmd, env)
                      [] name = "web_search" ->
                            web_search(a.query, IF "num_results" \in keys THEN a.num_results ELSE JInt, env))
                   EXCEPT !.called = <<name>>]

NotImplementedText(tool_name) == <<FRED, "Tool '", tool_name, "' not implemented", RESET>>
ErrorExecutingText(tool_name, e) == <<FRED, "Error executing ", tool_name, ": ", e, RESET>>

\* execute_tool without its try/except
execute_tool_m(tool_name, params, fs, dirs, env) ==
    IF tool_name \in ToolNames THEN CallKw(tool_name, params, fs, dirs, env)
    ELSE Ret(NotImplementedText(tool_name), {}, {})

execute_tool(tool_name, params, fs, dirs, env) ==
    IF tool_name \in ToolNames
    THEN LET r == CallKw(tool_name, params, fs, dirs, env)
         IN  IF r.raised
             THEN [Ret(ErrorExecutingText(tool_name, r.err), r.spawn, r.writes)
                      EXCEPT !.called = r.called]
             ELSE r
    ELSE Ret(NotImplementedText(tool_name), {}, {})

\* the outcomes the world can give to the executor of a tool
Envs(tool_name) ==
    CASE tool_name = "run_command" -> ProcEnvs
      [] tool_name \in {"read_file", "write_file"} -> FileEnvs
      [] tool_name \in {"list_files", "find_files"} -> DirEnvs
      [] tool_name = "web_search" -> WebEnvs
      [] OTHER -> {NoEnv}

(* -------------------------------- state -------------------------------- *)
VARIABLES
    pc,               \* where the main thread is in run() / process_user_input
    messages,         \* self.messages
    debug,            \* self.debug
    user_input,       \* run(): user_input
    round,            \* iterations of "for _ in range(5)" completed
    response_message, \* the assistant turn being worked on
    toolIdx,          \* position of tool_call in response_message.tool_calls
    function_args,    \* the decoded arguments of tool_call
    tool_result,      \* the text execute_tool returned
    final_response,   \* process_user_input: final_response
    response,         \* run(): response, once process_user_input has returned
    exc,              \* the exception being handled by run()
    spinning,         \* Spinner.spinning
    spinner_thread,   \* Spinner.spinner_thread: "none", "running" or "finished"
    printEv,          \* what the main thread printed in the step just taken
    nextId,           \* the id of the next tool call the model issues
    events,           \* events of the session so far
    chatCalls,        \* Chat Client calls made for the current user input
    procs,            \* the command lines handed to the shell so far
    fs,               \* the files written so far: path -> content
    called,           \* the executor entered by the last dispatch, if any
    cmd,              \* SpecCmd: the argument of run_command
    cmd_result,       \* SpecCmd: what run_command returned
    advertised,       \* the tool names sent with the last Chat Client call, if any
    dirs,             \* the directories created so far
    http,             \* the HTTP requests sent so far
    given,            \* path -> the content passed to the last successful write_file
    args,             \* the arguments of the executor called alone
    ret,              \* what the executor called alone returned
    world             \* what the world outside answered to the executor called alone

vars ==
    <<pc, messages, debug, user_input, round, response_message, toolIdx, function_args,
      tool_result, final_response, response, exc, spinning, spinner_thread,
      printEv, nextId, events, chatCalls, procs, fs, called, cmd, cmd_result,
      advertised, dirs, http, given, args, ret, world>>

locals == <<round, response_message, toolIdx, function_args, tool_result, final_response>>

Msg(r, c, tcs, id, n) ==
    [role |-> r, content |-> c, tool_calls |-> tcs, tool_call_id |-> id, name |-> n]

NoTurn == [content |-> None, tool_calls |-> None]
JNull == [kind |-> "null", str |-> <<>>, fields |-> <<>>]

\* response_message.model_dump()
model_dump(m) == Msg("assistant", m.content, m.tool_calls, None, None)

\* what the user types
Inputs == {"exit", "Quit", "debug", "hi"}
\* an input that is compared as it was typed
Lower_m(u) == u
\* str.lower() on the inputs above
Lower(u) == IF u = "Quit" THEN "quit" ELSE u

\* what the model answers: text, and the (name, arguments) of tool calls
Contents == {None, Some("a")}
ModelCalls == {<<"run_command", RawDenied>>, <<"bogus", RawEmpty>>, <<"read_file", RawBad>>}
TurnSizes == 0..2

\* the tool_calls of a turn: absent, or a list of calls with fresh ids
ToolCallLists(first) ==
    {None} \cup {Some(<<>>) : n \in TurnSizes \cap {0}} \cup
    {Some([i \in DOMAIN f |-> [id |-> first + i - 1, name |-> f[i][1], arguments |-> f[i][2]]]) :
        f \in UNION {[1..n -> ModelCalls] : n \in TurnSizes \ {0}}}

\* the events of one assistant turn
TurnEvents(c, tcs) ==
    1 + (IF c = None THEN 0 ELSE 1) + (IF Truthy(tcs) THEN Len(tcs[1]) - 1 ELSE 0)

(* ----------------------------- construction --------------------------- *)
Init ==
    /\ pc = "start"
    /\ messages = <<>>
    /\ debug \in BOOLEAN
    /\ events = (IF debug THEN 1 ELSE 0)
    /\ user_input = ""
    /\ round = 0
    /\ response_message = NoTurn
    /\ toolIdx = 0
    /\ function_args = JNull
    /\ tool_result = <<>>
    /\ final_response = ""
    /\ response = None
    /\ exc = None
    /\ spinning = FALSE
    /\ spinner_thread = "none"
    /\ printEv = "none"
    /\ nextId = 1
    /\ chatCalls = 0
    /\ procs = {}
    /\ fs = <<>>
    /\ called = None
    /\ cmd = <<>>
    /\ cmd_result = None
    /\ advertised = None
    /\ dirs = {}
    /\ http = 0
    /\ given = <<>>
    /\ args = <<>>
    /\ ret = None
    /\ world = <<>>

ResetLocals ==
    /\ round' = 0
    /\ response_message' = NoTurn
    /\ toolIdx' = 0
    /\ function_args' = JNull
    /\ tool_result' = <<>>
    /\ final_response' = ""

(* --------------------------------- run --------------------------------- *)
\* lines 77-82: the banner, and the system message
RunStart ==
    /\ pc = "start"
    /\ messages' = Append(messages, Msg("system", <<"system prompt">>, None, None, None))
    /\ printEv' = "banner"
    /\ pc' = "prompt"
    /\ UNCHANGED <<debug, user_input, locals, response, exc, spinning, spinner_thread,
                   nextId, events, chatCalls, procs, fs, called, cmd,
                   cmd_result, advertised, dirs, http, given, args, ret, world>>

\* lines 87-101: input(), the control inputs, spinner.start()
ReadInput ==
    /\ pc = "prompt"
    /\ events < MaxEvents
    /\ events' = events + 1
    /\ \E u \in Inputs :
          IF Lower(u) \in {"exit", "quit"}
          THEN /\ user_input' = u
               /\ printEv' = "exit"
               /\ pc' = "done"
               /\ UNCHANGED <<debug, spinning, spinner_thread>>
          ELSE IF Lower(u) = "debug"
          THEN /\ user_input' = u
               /\ debug' = ~debug
               /\ printEv' = "debugmode"
               /\ pc' = "prompt"
               /\ UNCHANGED <<spinning, spinner_thread>>
          ELSE /\ user_input' = u
               /\ spinning' = TRUE
               /\ spinner_thread' = "running"
               /\ printEv' = "none"
               /\ pc' = "pui"
               /\ UNCHANGED debug
    /\ UNCHANGED <<messages, locals, response, exc, nextId, chatCalls, procs,
                   fs, called, cmd, cmd_result, advertised, dirs, http, given, args, ret, world>>

\* a process_user_input that starts every input from a fresh context
BeginProcess_m ==
    /\ pc = "pui"
    /\ messages' = <<messages[1], Msg("user", <<user_input>>, None, None, None)>>
    /\ final_response' = ""
    /\ round' = 0
    /\ chatCalls' = 0
    /\ printEv' = "none"
    /\ pc' = "chat"
    /\ UNCHANGED <<debug, user_input, response_message, toolIdx, function_args, tool_result,
                   response, exc, spinning, spinner_thread, nextId,
                   events, procs, fs, called, cmd, cmd_result, advertised, dirs, http, given, args, ret, world>>

\* line 104 with lines 124-129: the call, the user message, the placeholder
BeginProcess ==
    /\ pc = "pui"
    /\ messages' = Append(messages, Msg("user", <<user_input>>, None, None, None))
    /\ final_response' = ""
    /\ round' = 0
    /\ chatCalls' = 0
    /\ printEv' = "none"
    /\ pc' = IF 0 < MaxRounds THEN "chat" ELSE "ret"
    /\ UNCHANGED <<debug, user_input, response_message, toolIdx, function_args, tool_result,
                   response, exc, spinning, spinner_thread, nextId,
                   events, procs, fs, called, cmd, cmd_result, advertised, dirs, http, given, args, ret, world>>

(* -------------------------- process_user_input ------------------------- *)
\* a definition that leaves out the last tool
get_tools_definition_m ==
    {"read_file", "write_file", "list_files", "find_files", "run_command"}
\* the names of the tools that chat() sends with every request
get_tools_definition ==
    {"read_file", "write_file", "list_files", "find_files", "run_command", "web_search"}

\* lines 131 and 196-199: the request fails; the exception leaves
\* process_user_input, which catches nothing
ChatFails_m ==
    /\ pc = "chat"
    /\ chatCalls < MaxRounds + 1
    /\ chatCalls' = chatCalls + 1
    /\ printEv' = IF debug THEN "debug" ELSE "none"
    /\ pc' = "chat"
    /\ UNCHANGED <<messages, debug, user_input, locals, response, exc, spinning, spinner_thread,
                   nextId, events, procs, fs, called, cmd, cmd_result, advertised, dirs, http, given, args, ret, world>>

ChatFails ==
    /\ pc = "chat"
    /\ events < MaxEvents
    /\ events' = events + 1
    /\ chatCalls' = chatCalls + 1
    /\ advertised' = Some(get_tools_definition)
    /\ printEv' = IF debug THEN "debug" ELSE "none"
    /\ exc' = Some("APIError")
    /\ ResetLocals
    /\ pc' = "exc"
    /\ UNCHANGED <<messages, debug, user_input, response, spinning, spinner_thread,
                   nextId, procs, fs, called, cmd, cmd_result, dirs, http, given, args, ret, world>>

\* lines 131-141 and 164-167: the model answers with one assistant turn
ChatAnswers ==
    /\ pc = "chat"
    /\ chatCalls' = chatCalls + 1
    /\ advertised' = Some(get_tools_definition)
    /\ printEv' = IF debug THEN "debug" ELSE "none"
    /\ \E c \in Contents, tcs \in ToolCallLists(nextId) :
          /\ events + TurnEvents(c, tcs) <= MaxEvents
          /\ events' = events + TurnEvents(c, tcs)
          /\
             LET turn == [content |-> c, tool_calls |-> tcs]
             IN
              /\ messages' = Append(messages, model_dump(turn))
              /\ IF Truthy(tcs)
                 THEN /\ response_message' = turn
                      /\ toolIdx' = 1
                      /\ nextId' = nextId + Len(tcs[1])
                      /\ pc' = "decode"
                      /\ UNCHANGED final_response
                 ELSE /\ final_response' = OrEmpty(c)
                      /\ response_message' = NoTurn
                      /\ toolIdx' = 0
                      /\ pc' = "ret"
                      /\ UNCHANGED nextId
    /\ UNCHANGED <<debug, user_input, round, function_args, tool_result, response, exc,
                   spinning, spinner_thread, procs, fs, called,
                   cmd, cmd_result, dirs, http, given, args, ret, world>>

tool_call == response_message.tool_calls[1][toolIdx]

\* lines 143-148: the name, json.loads of the arguments, the debug print
ToolDecode ==
    /\ pc = "decode"
    /\ LET r == json_loads(tool_call.arguments)
       IN  IF r.raised
           THEN /\ exc' = Some("JSONDecodeError")
                /\ ResetLocals
                /\ printEv' = "none"
                /\ pc' = "exc"
           ELSE /\ function_args' = r.val
                /\ printEv' = IF debug THEN "debug" ELSE "none"
                /\ pc' = "exec"
                /\ UNCHANGED <<exc, round, response_message, toolIdx, tool_result,
                               final_response>>
    /\ UNCHANGED <<messages, debug, user_input, response, spinning, spinner_thread,
                   nextId, events, chatCalls, procs, fs, called, cmd,
                   cmd_result, advertised, dirs, http, given, args, ret, world>>

\* a dispatch whose writes are not there for the calls after it
Written_m(files, writes) == files
\* fs after the writes of an executor
Written(files, writes) ==
    [p \in DOMAIN files \cup {w[1] : w \in writes} |->
        IF \E w \in writes : w[1] = p THEN (CHOOSE w \in writes : w[1] = p)[2] ELSE files[p]]

\* line 152: the dispatch (line 151 changes only the text the spinner shows)
ToolExec ==
    /\ pc = "exec"
    /\ \E env \in Envs(tool_call.name) :
          LET r == execute_tool(tool_call.name, function_args, fs, dirs, env)
          IN  /\ procs' = procs \cup r.spawn
              /\ fs' = (IF r.writes = {} THEN fs ELSE Written(fs, r.writes))
              /\ dirs' = dirs \cup r.mkdirs
              /\ http' = http + r.sent
              /\ called' = r.called
              /\ IF r.raised
                 THEN /\ exc' = Some(r.err)
                      /\ ResetLocals
                      /\ pc' = "exc"
                 ELSE /\ tool_result' = r.val
                      /\ pc' = "append"
                      /\ UNCHANGED <<exc, round, response_message, toolIdx, function_args,
                                     final_response>>
    /\ printEv' = "none"
    /\ UNCHANGED <<messages, debug, user_input, response, spinning, spinner_thread, nextId,
                   events, chatCalls, cmd, cmd_result, advertised, given, args, ret, world>>

\* lines 155-160: the tool-role message of a call
ToolMessage_m(call, result) == Msg("tool", result, None, Some(response_message.tool_calls[1][1].id), Some(call.name))
ToolMessage(call, result) == Msg("tool", result, None, Some(call.id), Some(call.name))

\* lines 155-163, 129 and 169: the result is appended; then the next tool
\* call, the next round, or the end of the rounds
ToolAppend ==
    /\ pc = "append"
    /\ messages' = Append(messages, ToolMessage(tool_call, tool_result))
    /\ function_args' = JNull
    /\ tool_result' = <<>>
    /\ called' = None
    /\ IF toolIdx < Len(response_message.tool_calls[1])
       THEN /\ toolIdx' = toolIdx + 1
            /\ pc' = "decode"
            /\ UNCHANGED <<round, response_message>>
       ELSE /\ toolIdx' = 0
            /\ response_message' = NoTurn
            /\ round' = round + 1
            /\ pc' = IF round + 1 < MaxRounds THEN "chat" ELSE "ret"
    /\ printEv' = "none"
    /\ UNCHANGED <<debug, user_input, final_response, response, exc, spinning, spinner_thread,
                   nextId, events, chatCalls, procs, fs, cmd, cmd_result, advertised, dirs, http, given, args, ret, world>>

\* lines 169, 104 and 107: the value is returned to run(), spinner.stop()
\* clears the flag
Return ==
    /\ pc = "ret"
    /\ response' = Some(final_response)
    /\ ResetLocals
    /\ spinning' = FALSE
    /\ printEv' = "none"
    /\ chatCalls' = 0
    /\ pc' = "join_ok"
    /\ UNCHANGED <<messages, debug, user_input, exc, spinner_thread, nextId,
                   events, procs, fs, called, cmd, cmd_result, advertised, dirs, http, given, args, ret, world>>

\* lines 56-57 inside line 107: join returns once the thread has finished
JoinOk ==
    /\ pc = "join_ok"
    /\ spinner_thread # "running"
    /\ printEv' = "none"
    /\ pc' = "print_ok"
    /\ UNCHANGED <<messages, debug, user_input, locals, response, exc, spinning,
                   spinner_thread, nextId, events, chatCalls, procs, fs,
                   called, cmd, cmd_result, advertised, dirs, http, given, args, ret, world>>

\* line 110, then the next iteration of "while True"
PrintResponse ==
    /\ pc = "print_ok"
    /\ printEv' = "response"
    /\ response' = None
    /\ pc' = "prompt"
    /\ UNCHANGED <<messages, debug, user_input, locals, exc, spinning, spinner_thread,
                   nextId, events, chatCalls, procs, fs, called, cmd,
                   cmd_result, advertised, dirs, http, given, args, ret, world>>

(* ------------------------- the handlers of run() ----------------------- *)
\* line 118: except Exception, spinner.stop() clears the flag
ExcStop ==
    /\ pc = "exc"
    /\ spinning' = FALSE
    /\ printEv' = "none"
    /\ pc' = "join_exc"
    /\ UNCHANGED <<messages, debug, user_input, locals, response, exc, spinner_thread,
                   nextId, events, chatCalls, procs, fs, called, cmd,
                   cmd_result, advertised, dirs, http, given, args, ret, world>>

JoinExc ==
    /\ pc = "join_exc"
    /\ spinner_thread # "running"
    /\ printEv' = "none"
    /\ pc' = "print_exc"
    /\ UNCHANGED <<messages, debug, user_input, locals, response, exc, spinning,
                   spinner_thread, nextId, events, chatCalls, procs, fs,
                   called, cmd, cmd_result, advertised, dirs, http, given, args, ret, world>>

\* line 119, then the next iteration of "while True"
PrintError ==
    /\ pc = "print_exc"
    /\ printEv' = "error"
    /\ exc' = None
    /\ chatCalls' = 0
    /\ pc' = "prompt"
    /\ UNCHANGED <<messages, debug, user_input, locals, response, spinning, spinner_thread,
                   nextId, events, procs, fs, called, cmd,
                   cmd_result, advertised, dirs, http, given, args, ret, world>>

\* where a KeyboardInterrupt finds the main thread inside the try block
InTry == {"prompt", "pui", "chat", "decode", "exec", "append", "ret", "join_ok", "print_ok"}
Processing == {"pui", "chat", "decode", "exec", "append", "ret", "join_ok", "print_ok"}

\* line 112: the user interrupts the main thread inside the try block
Interrupt ==
    /\ pc \in InTry
    /\ events < MaxEvents
    /\ events' = events + 1
    /\ ResetLocals
    /\ response' = None
    /\ called' = None
    /\ printEv' = "none"
    /\ chatCalls' = 0
    /\ pc' = "kbi"
    /\ UNCHANGED <<messages, debug, user_input, exc, spinning, spinner_thread,
                   nextId, procs, fs, cmd, cmd_result, advertised, dirs, http, given, args, ret, world>>

\* line 113
KbiStop ==
    /\ pc = "kbi"
    /\ spinning' = FALSE
    /\ printEv' = "none"
    /\ pc' = "join_kbi"
    /\ UNCHANGED <<messages, debug, user_input, locals, response, exc, spinner_thread,
                   nextId, events, chatCalls, procs, fs, called, cmd,
                   cmd_result, advertised, dirs, http, given, args, ret, world>>

JoinKbi ==
    /\ pc = "join_kbi"
    /\ spinner_thread # "running"
    /\ printEv' = "none"
    /\ pc' = "print_kbi"
    /\ UNCHANGED <<messages, debug, user_input, locals, response, exc, spinning,
                   spinner_thread, nextId, events, chatCalls, procs, fs,
                   called, cmd, cmd_result, advertised, dirs, http, given, args, ret, world>>

\* where run() goes after the handler of KeyboardInterrupt
AfterInterrupt_m == "prompt"
\* line 115: break
AfterInterrupt == "done"

\* lines 114-115
PrintExit ==
    /\ pc = "print_kbi"
    /\ printEv' = "exit"
    /\ pc' = AfterInterrupt
    /\ UNCHANGED <<messages, debug, user_input, locals, response, exc, spinning,
                   spinner_thread, nextId, events, chatCalls, procs, fs,
                   called, cmd, cmd_result, advertised, dirs, http, given, args, ret, world>>

(* ------------------------------- Spinner ------------------------------- *)
\* lines 39 and 44: the thread reads spinning = False, clears the line, ends
SpinExit ==
    /\ spinner_thread = "running"
    /\ ~spinning
    /\ spinner_thread' = "finished"
    /\ UNCHANGED <<pc, messages, debug, user_input, locals, response, exc, spinning,
                   printEv, nextId, events, chatCalls, procs, fs, called,
                   cmd, cmd_result, advertised, dirs, http, given, args, ret, world>>

Next ==
    \/ RunStart
    \/ ReadInput
    \/ BeginProcess
    \/ ChatFails
    \/ ChatAnswers
    \/ ToolDecode
    \/ ToolExec
    \/ ToolAppend
    \/ Return
    \/ JoinOk
    \/ PrintResponse
    \/ ExcStop
    \/ JoinExc
    \/ PrintError
    \/ Interrupt
    \/ KbiStop
    \/ JoinKbi
    \/ PrintExit
    \/ SpinExit

Spec == Init /\ [][Next]_vars

(* ---------------- the dispatch of one assistant turn, alone ------------ *)
\* the tool calls a model can send: any name, any serialized arguments
CallUniverse == (ToolNames \cup {"bogus"}) \X Raws
SecondCalls == {<<"bogus", RawEmpty>>, <<"run_command", RawAllowed>>, <<"read_file", RawPath>>}
FsChoices == {<<>>, [p \in {<< <<"s">> >>} |-> <<"l">>]}

\* process_user_input at line 142 in the first round: the assistant turn, with
\* two tool calls, has been appended
InitTool ==
    /\ pc = "decode"
    /\ debug \in BOOLEAN
    /\ events = 3
    /\ user_input = "hi"
    /\ round = 0
    /\ \E c1 \in CallUniverse, c2 \in SecondCalls :
          /\ response_message =
                [content |-> None,
                 tool_calls |-> Some(<<[id |-> 1, name |-> c1[1], arguments |-> c1[2]],
                                       [id |-> 2, name |-> c2[1], arguments |-> c2[2]]>>)]
          /\ messages =
                <<Msg("system", <<"system prompt">>, None, None, None),
                  Msg("user", <<"hi">>, None, None, None),
                  model_dump(response_message)>>
    /\ toolIdx = 1
    /\ function_args = JNull
    /\ tool_result = <<>>
    /\ final_response = ""
    /\ response = None
    /\ exc = None
    /\ spinning = TRUE
    /\ spinner_thread = "running"
    /\ printEv = "none"
    /\ nextId = 3
    /\ chatCalls = 1
    /\ procs = {}
    /\ fs \in FsChoices
    /\ called = None
    /\ cmd = <<>>
    /\ cmd_result = None
    /\ advertised = Some(get_tools_definition)
    /\ dirs = {}
    /\ http = 0
    /\ given = <<>>
    /\ args = <<>>
    /\ ret = None
    /\ world = <<>>

NextTool ==
    \/ ToolDecode
    \/ ToolExec
    \/ ToolAppend

SpecTool == InitTool /\ [][NextTool]_vars

(* --------------------------- run_command, alone ------------------------ *)
CmdChars == {" ", "\t", "l", "s", ";"}
CmdStrings == UNION {[1..n -> CmdChars] : n \in 0..MaxCmdLen}

InitCmd ==
    /\ pc = "cmd"
    /\ cmd \in CmdStrings
    /\ cmd_result = None
    /\ messages = <<>>
    /\ debug = FALSE
    /\ events = 0
    /\ user_input = ""
    /\ round = 0
    /\ response_message = NoTurn
    /\ toolIdx = 0
    /\ function_args = JNull
    /\ tool_result = <<>>
    /\ final_response = ""
    /\ response = None
    /\ exc = None
    /\ spinning = FALSE
    /\ spinner_thread = "none"
    /\ printEv = "none"
    /\ nextId = 1
    /\ chatCalls = 0
    /\ procs = {}
    /\ fs = <<>>
    /\ called = None
    /\ advertised = None
    /\ dirs = {}
    /\ http = 0
    /\ given = <<>>
    /\ args = <<>>
    /\ ret = None
    /\ world = <<>>

RECURSIVE CmdLen(_)
\* length of the leading run of characters other than ";"
CmdLen(s) == IF s = <<>> \/ Head(s) = ";" THEN 0 ELSE 1 + CmdLen(Tail(s))

RECURSIVE Commands(_)
\* the commands of a command line, which ";" separates
Commands(s) ==
    IF CmdLen(s) = Len(s) THEN <<s>>
    ELSE <<SubSeq(s, 1, CmdLen(s))>> \o Commands(SubSeq(s, CmdLen(s) + 2, Len(s)))

\* the programs that the shell of subprocess.run(cmd, shell=True) runs for a
\* command line: the first word of each command; an empty command before a
\* ";" is a syntax error, and then the shell runs nothing
ShellRuns(line) ==
    LET cs == Commands(line)
    IN  IF \E i \in 1..(Len(cs) - 1) : Split(cs[i]) = <<>> THEN {}
        ELSE {Split(cs[i])[1] : i \in {j \in 1..Len(cs) : Split(cs[j]) # <<>>}}

\* run_command(cmd) on a str
RunCommand ==
    /\ pc = "cmd"
    /\ \E env \in ProcEnvs :
          LET r == run_command(JStr(cmd), env)
          IN  /\ cmd_result' = Some(r.val)
              /\ procs' = r.spawn
              /\ world' = env
    /\ pc' = "cmd_done"
    /\ UNCHANGED <<messages, debug, user_input, locals, response, exc, spinning,
                   spinner_thread, printEv, nextId, events, chatCalls, fs, called, cmd,
                   advertised, dirs, http, given, args, ret>>

NextCmd == RunCommand

SpecCmd == InitCmd /\ [][NextCmd]_vars

(* ---------------------- write_file and read_file, alone ---------------- *)
\* "f", "d/f", "d" and "./f"
FilePaths == {<<"f">>, <<"d", "/", "f">>, <<"d">>, <<".", "/", "f">>}
FileChars == {"a", "\r", "\n"}
FileTexts == UNION {[1..n -> FileChars] : n \in 0..2} \cup {<<SURR>>}

InitFile ==
    /\ pc = "file"
    /\ fs = <<>>
    /\ dirs = {}
    /\ given = <<>>
    /\ args = <<>>
    /\ ret = None
    /\ world = <<>>
    /\ events = 0
    /\ cmd = <<>>
    /\ cmd_result = None
    /\ messages = <<>>
    /\ debug = FALSE
    /\ user_input = ""
    /\ round = 0
    /\ response_message = NoTurn
    /\ toolIdx = 0
    /\ function_args = JNull
    /\ tool_result = <<>>
    /\ final_response = ""
    /\ response = None
    /\ exc = None
    /\ spinning = FALSE
    /\ spinner_thread = "none"
    /\ printEv = "none"
    /\ nextId = 1
    /\ chatCalls = 0
    /\ procs = {}
    /\ called = None
    /\ advertised = None
    /\ http = 0

\* a text returned by an executor reports success
Succeeded(text) == text # <<>> /\ text[1] # FRED

\* given after a call of write_file: the content of a successful call is
\* remembered for its file, a failed call leaves nothing to expect of it
Given(old, file_path, content, ok) ==
    [q \in (DOMAIN old \ {file_path}) \cup (IF ok THEN {file_path} ELSE {}) |->
        IF q = file_path THEN content ELSE old[q]]

\* write_file(path, content) on two str
WriteFile ==
    /\ pc \in {"file", "written", "read"}
    /\ events < MaxOps
    /\ events' = events + 1
    /\ \E p \in FilePaths, c \in FileTexts, env \in FileEnvs :
          LET r == write_file(fs, dirs, JStr(p), JStr(c), env)
          IN  /\ fs' = (IF r.writes = {} THEN fs ELSE Written(fs, r.writes))
              /\ dirs' = dirs \cup r.mkdirs
              /\ ret' = Some(r.val)
              /\ args' = <<p, c>>
              /\ given' = Given(given, Resolve(p), c, Succeeded(r.val))
    /\ pc' = "written"
    /\ UNCHANGED <<messages, debug, user_input, locals, response, exc, spinning,
                   spinner_thread, printEv, nextId, chatCalls, procs, called, cmd, cmd_result,
                   advertised, http, world>>

\* read_file(path) on a str
ReadFile ==
    /\ pc \in {"file", "written", "read"}
    /\ events < MaxOps
    /\ events' = events + 1
    /\ \E p \in FilePaths, env \in FileEnvs :
          LET r == read_file(fs, JStr(p), env)
          IN  /\ ret' = Some(r.val)
              /\ args' = <<p>>
    /\ pc' = "read"
    /\ UNCHANGED <<messages, debug, user_input, locals, response, exc, spinning,
                   spinner_thread, printEv, nextId, chatCalls, procs, called, cmd, cmd_result,
                   advertised, http, world, fs, dirs, given>>

NextFile ==
    \/ WriteFile
    \/ ReadFile

SpecFile == InitFile /\ [][NextFile]_vars

(* ---------------------- list_files and find_files, alone --------------- *)
\* the names an entry of the current directory can have: "a", "a-b", "b"
EntryNames == {<<"a">>, <<"a", "-", "b">>, <<"b">>}
\* the current directory: the names in it, each a directory or a file
Directories == UNION {[S -> BOOLEAN] : S \in SUBSET EntryNames}
\* ".", and a name in it
ListPaths == {<<".">>, <<"b">>}
\* "*", "a*", "b"
Patterns == {<<"*">>, <<"a", "*">>, <<"b">>}

\* the orders in which the operating system can yield a set of entries
Orders(S) == {o \in [1..Cardinality(S) -> S] : \A i, j \in DOMAIN o : i # j => o[i] # o[j]}

RECURSIVE Match(_, _)
\* glob: the name matches the pattern, "*" standing for any characters
Match(pat, n) ==
    IF pat = <<>> THEN n = <<>>
    ELSE IF Head(pat) = "*" THEN Match(Tail(pat), n) \/ (n # <<>> /\ Match(pat, Tail(n)))
    ELSE n # <<>> /\ Head(n) = Head(pat) /\ Match(Tail(pat), Tail(n))

InitDir ==
    /\ pc = "dir"
    /\ world \in Directories
    /\ fs = <<>>
    /\ dirs = {}
    /\ given = <<>>
    /\ args = <<>>
    /\ ret = None
    /\ events = 0
    /\ cmd = <<>>
    /\ cmd_result = None
    /\ messages = <<>>
    /\ debug = FALSE
    /\ user_input = ""
    /\ round = 0
    /\ response_message = NoTurn
    /\ toolIdx = 0
    /\ function_args = JNull
    /\ tool_result = <<>>
    /\ final_response = ""
    /\ response = None
    /\ exc = None
    /\ spinning = FALSE
    /\ spinner_thread = "none"
    /\ printEv = "none"
    /\ nextId = 1
    /\ chatCalls = 0
    /\ procs = {}
    /\ called = None
    /\ advertised = None
    /\ http = 0

\* is_dir() of the resolved path, and the entries in it (a subdirectory of
\* the current directory is empty)
IsDir(path) == Resolve(path) = <<>> \/ (path \in DOMAIN world /\ world[path])
EntriesOf(path) == IF Resolve(path) = <<>> THEN DOMAIN world ELSE {}

\* list_files(path) on a str
ListFiles ==
    /\ pc = "dir"
    /\ \E path \in ListPaths, f \in BOOLEAN :
       \E o \in Orders(EntriesOf(path)) :
          LET env == [NoEnv EXCEPT !.fails = f, !.isdir = IsDir(path),
                                   !.items = [i \in DOMAIN o |-> [name |-> o[i], isdir |-> world[o[i]]]]]
          IN  /\ ret' = Some(list_files(JStr(path), env).val)
              /\ args' = <<path>>
    /\ pc' = "listed"
    /\ UNCHANGED <<messages, debug, user_input, locals, response, exc, spinning,
                   spinner_thread, printEv, nextId, events, chatCalls, procs, called, cmd,
                   cmd_result, advertised, http, world, fs, dirs, given>>

\* find_files(pattern) on a str
FindFiles ==
    /\ pc = "dir"
    /\ \E pattern \in Patterns, f \in BOOLEAN :
       \E o \in Orders({n \in DOMAIN world : Match(pattern, n)}) :
          LET env == [NoEnv EXCEPT !.fails = f, !.found = o]
          IN  /\ ret' = Some(find_files(JStr(pattern), env).val)
              /\ args' = <<pattern>>
    /\ pc' = "found"
    /\ UNCHANGED <<messages, debug, user_input, locals, response, exc, spinning,
                   spinner_thread, printEv, nextId, events, chatCalls, procs, called, cmd,
                   cmd_result, advertised, http, world, fs, dirs, given>>

NextDir ==
    \/ ListFiles
    \/ FindFiles

SpecDir == InitDir /\ [][NextDir]_vars

(* ---------------------------- web_search, alone ----------------------- *)
\* the values of num_results: absent (the default 5), 5, "5", "x", null
NumResults == {JInt, JStr(<<"5">>), JStr(<<"x">>), JNull}

InitWeb ==
    /\ pc = "web"
    /\ world = NoEnv
    /\ fs = <<>>
    /\ dirs = {}
    /\ given = <<>>
    /\ args = <<>>
    /\ ret = None
    /\ events = 0
    /\ cmd = <<>>
    /\ cmd_result = None
    /\ messages = <<>>
    /\ debug = FALSE
    /\ user_input = ""
    /\ round = 0
    /\ response_message = NoTurn
    /\ toolIdx = 0
    /\ function_args = JNull
    /\ tool_result = <<>>
    /\ final_response = ""
    /\ response = None
    /\ exc = None
    /\ spinning = FALSE
    /\ spinner_thread = "none"
    /\ printEv = "none"
    /\ nextId = 1
    /\ chatCalls = 0
    /\ procs = {}
    /\ called = None
    /\ advertised = None
    /\ http = 0

\* web_search(query, num_results)
WebSearch ==
    /\ pc = "web"
    /\ \E num_results \in NumResults, env \in WebEnvs \cup {[e EXCEPT !.status = 404] : e \in WebEnvs} :
          LET r == web_search(JStr(<<"s">>), num_results, env)
          IN  /\ ret' = Some(r.val)
              /\ http' = http + r.sent
              /\ args' = <<JStr(<<"s">>), num_results>>
              /\ world' = env
    /\ pc' = "searched"
    /\ UNCHANGED <<messages, debug, user_input, locals, response, exc, spinning,
                   spinner_thread, printEv, nextId, events, chatCalls, procs, called, cmd,
                   cmd_result, advertised, fs, dirs, given>>

NextWeb == WebSearch

SpecWeb == InitWeb /\ [][NextWeb]_vars

(* ======================================================================= *)
(*                                 claims                                  *)
(* ======================================================================= *)
\* an assistant message that carries tool-call requests
Requests(m) == IF m.role = "assistant" /\ m.tool_calls # None THEN m.tool_calls[1] ELSE <<>>

\* the tool-role messages after position i that answer the call
AnswersTo(h, i, call) ==
    {j \in (i + 1)..Len(h) : h[j].role = "tool" /\ h[j].tool_call_id = Some(call.id)}

AllAnswered(h) ==
    \A i \in 1..Len(h) : \A k \in 1..Len(Requests(h[i])) :
        Cardinality(AnswersTo(h, i, Requests(h[i])[k])) = 1

\* C1: at every call to the Chat Client, every tool-call request of an
\* assistant message in the history is answered by exactly one later
\* tool-role message with its tool_call_id, whatever failed before.
Claim_C1 == pc = "chat" => AllAnswered(messages)

\* the position of the user message of the input being processed
LastUser(h) == CHOOSE i \in 1..Len(h) : h[i].role = "user" /\ \A j \in (i + 1)..Len(h) : h[j].role # "user"
\* what was appended for the input being processed
Segment(h) == SubSeq(h, LastUser(h) + 1, Len(h))

RECURSIVE IssuedCalls(_)
\* the (id, name) of the tool calls of the assistant turns, in the order issued
IssuedCalls(seg) ==
    IF seg = <<>> THEN <<>>
    ELSE [k \in 1..Len(Requests(Head(seg))) |->
             <<Requests(Head(seg))[k].id, Requests(Head(seg))[k].name>>]
         \o IssuedCalls(Tail(seg))

RECURSIVE ToolReplies(_)
\* the (tool_call_id, name) of the tool-role messages, in the order appended
ToolReplies(seg) ==
    IF seg = <<>> THEN <<>>
    ELSE (IF Head(seg).role = "tool"
          THEN << <<Head(seg).tool_call_id[1], Head(seg).name[1]>> >>
          ELSE <<>>)
         \o ToolReplies(Tail(seg))

\* each assistant turn is directly followed by the replies to its calls, in order
RepliesFollow(seg) ==
    \A i \in 1..Len(seg) : \A k \in 1..Len(Requests(seg[i])) :
        /\ i + k <= Len(seg)
        /\ seg[i + k].role = "tool"
        /\ seg[i + k].tool_call_id = Some(Requests(seg[i])[k].id)
        /\ seg[i + k].name = Some(Requests(seg[i])[k].name)

\* C2: when process_user_input completes for an input whose assistant turns
\* hold N tool calls, N tool-role messages were appended, the k-th with the
\* id and name of the k-th call issued, each turn's replies placed directly
\* after its assistant message in the order of its calls.
Thm_C2 ==
    pc = "ret" =>
        /\ ToolReplies(Segment(messages)) = IssuedCalls(Segment(messages))
        /\ RepliesFollow(Segment(messages))

\* C2 witness: a completed input with a turn of two differently named calls
\* and a later turn with a call
Witness_C2 ==
    /\ pc = "ret"
    /\ Len(IssuedCalls(Segment(messages))) >= 3
    /\ \E i \in 1..Len(messages) :
          /\ Len(Requests(messages[i])) = 2
          /\ Requests(messages[i])[1].name # Requests(messages[i])[2].name
          /\ \E j \in (i + 1)..Len(messages) : Len(Requests(messages[j])) >= 1

\* C3: for one user input at most 5 Chat Client calls are made: a call is
\* made only at the start of a round, rounds are counted from zero for each
\* input, and no round starts after the fifth.
Thm_C3 ==
    /\ chatCalls <= 5
    /\ pc = "chat" => chatCalls = round /\ round < 5
    /\ pc \in {"decode", "exec", "append"} => chatCalls = round + 1
    /\ pc = "pui" => chatCalls = 0

\* C3 witness: the fifth call of an input has been made and the loop has ended
Witness_C3 == pc = "ret" /\ chatCalls = 5 /\ Len(IssuedCalls(Segment(messages))) >= 5

\* the last assistant message of the history
LastAssistant(h) == h[CHOOSE i \in 1..Len(h) : h[i].role = "assistant" /\ \A j \in (i + 1)..Len(h) : h[j].role # "assistant"]

\* C4: when all 5 rounds returned assistant turns with tool calls, the value
\* returned is the text content of the last (5th) assistant turn.
Claim_C4 ==
    (pc = "ret" /\ round = 5) => final_response = OrEmpty(LastAssistant(messages).content)

\* the history ends with an assistant turn without tool calls
EndsWithFinalTurn ==
    /\ messages # <<>>
    /\ Last(messages).role = "assistant"
    /\ Last(messages).tool_calls \in {None, Some(<<>>)}

\* C5: once an assistant turn without tool calls (absent or empty list) is
\* in the history, process_user_input makes no Chat Client call and no tool
\* dispatch for this input and returns the turn's content, "" if absent.
Thm_C5 ==
    EndsWithFinalTurn =>
        /\ pc \notin {"chat", "decode", "exec", "append"}
        /\ pc = "ret" => final_response = OrEmpty(Last(messages).content)
        /\ pc \in {"join_ok", "print_ok"} => response = Some(OrEmpty(Last(messages).content))

\* C5 witness: a turn with an empty list of tool calls and no content ends
\* the processing after an earlier round of tool calls
Witness_C5 ==
    /\ pc = "ret"
    /\ EndsWithFinalTurn
    /\ Last(messages).tool_calls = Some(<<>>)
    /\ Last(messages).content = None
    /\ final_response = ""
    /\ round >= 1

\* params cannot be bound to the parameters of the executor
BadShape(name, a) ==
    \/ a.kind # "object"
    \/ ~(DOMAIN a.fields \subseteq Required(name) \cup Defaulted(name))
    \/ ~(Required(name) \subseteq DOMAIN a.fields)

SixTools == {"read_file", "write_file", "list_files", "find_files", "run_command", "web_search"}

\* C6: execute_tool never raises and returns a text: the 'not implemented'
\* text, with no executor entered, for a name outside the six tools; for a
\* registered name with arguments that do not fit the executor, an error
\* text with the tool name and the failure; and the loop goes on to the next
\* tool call (only undecodable arguments end it).
Thm_C6 ==
    /\ exc \in {None, Some("JSONDecodeError")}
    /\ pc = "append" =>
          /\ tool_result # <<>>
          /\ \A i \in 1..Len(tool_result) : tool_result[i] \in STRING
          /\ tool_call.name \notin SixTools =>
                /\ tool_result = <<FRED, "Tool '", tool_call.name, "' not implemented", RESET>>
                /\ called = None
          /\ (tool_call.name \in SixTools /\ BadShape(tool_call.name, function_args)) =>
                /\ tool_result = <<FRED, "Error executing ", tool_call.name, ": ", "TypeError", RESET>>
                /\ called = None
          /\ (tool_call.name \in SixTools /\ ~BadShape(tool_call.name, function_args)) =>
                called = Some(tool_call.name)
    /\ (pc \in {"decode", "exec", "append"} /\ toolIdx = 2) =>
          /\ Len(messages) = 4
          /\ messages[4].role = "tool"
          /\ messages[4].tool_call_id = Some(1)

\* C6 witness: the first call of the turn failed in the call of its executor,
\* its error text is in the history and the second call has been dispatched
Witness_C6 ==
    /\ pc = "append"
    /\ toolIdx = 2
    /\ Len(messages) = 4
    /\ messages[4].content = <<FRED, "Error executing ", "write_file", ": ", "TypeError", RESET>>

\* the nine commands of the whitelist
Whitelist ==
    {<<"l", "s">>, <<"d", "i", "r">>, <<"f", "i", "n", "d">>, <<"g", "r", "e", "p">>,
     <<"c", "a", "t">>, <<"h", "e", "a", "d">>, <<"t", "a", "i", "l">>, <<"w", "c">>,
     <<"e", "c", "h", "o">>}
Blank(c) == c \in {" ", "\t", "\n", "\r", "\f"}

\* the first whitespace-delimited token of s is on the whitelist
FirstTokenAllowed(s) ==
    \E i \in 1..Len(s), j \in 1..Len(s) :
        /\ i <= j
        /\ \A k \in 1..(i - 1) : Blank(s[k])
        /\ \A k \in i..j : ~Blank(s[k])
        /\ j = Len(s) \/ Blank(s[j + 1])
        /\ SubSeq(s, i, j) \in Whitelist

\* C7: run_command(cmd) hands cmd to a subprocess only when the first
\* whitespace-delimited token of cmd is on the whitelist; for every other
\* cmd, the empty and the blank ones included, it returns the denial text
\* and starts no subprocess.
Thm_C7 ==
    pc = "cmd_done" =>
        /\ procs = (IF FirstTokenAllowed(cmd) THEN {cmd} ELSE {})
        /\ ~FirstTokenAllowed(cmd) =>
              /\ cmd_result[1][2] = "Error: Command '"
              /\ cmd_result[1][Len(cmd_result[1]) - 1] = "' is not allowed for security reasons"

\* C7 witness: a cmd with a whitelisted word that is not its first token was
\* denied and nothing ran
Witness_C7 ==
    /\ pc = "cmd_done"
    /\ procs = {}
    /\ cmd = <<"s", " ", "l", "s">>

\* C8: a failed Chat Client call leaves process_user_input as an exception:
\* nothing is appended, returned or printed as an answer, no further chat
\* call and no tool dispatch is made for the input, and run() stops the
\* spinner, prints the error and prompts again.
Thm_C8 ==
    [][/\ (pc = "chat" /\ chatCalls' = chatCalls + 1 /\ messages' = messages) =>
            (pc' = "exc" /\ exc' = Some("APIError") /\ response' = None)
       /\ exc = Some("APIError") =>
            /\ pc \in {"exc", "join_exc", "print_exc"}
            /\ pc' \in {"exc", "join_exc", "print_exc", "prompt"}
            /\ messages' = messages
            /\ response' = None
            /\ procs' = procs
            /\ printEv' # "response"
            /\ pc = "print_exc" => (pc' = "prompt" /\ printEv' = "error" /\ ~spinning)
      ]_vars

\* C8 witness: the chat call of a later round failed, after tool calls were
\* dispatched, and run() is about to print the error
Witness_C8 ==
    /\ pc = "print_exc"
    /\ exc = Some("APIError")
    /\ Last(messages).role = "tool"

\* C9: a KeyboardInterrupt raised while an input is processed aborts only
\* the current turn: the agent then prompts for the next input and the
\* session goes on.
Claim_C9 == [][pc = "print_kbi" => pc' = "prompt"]_vars

\* C9 (amended): a KeyboardInterrupt raised inside the try block of run()
\* ends the session: the spinner is stopped, the exit message is printed and
\* run() leaves its loop, with the history as it was at the interrupt; no
\* input is prompted for afterwards.
Thm_C9 ==
    [][/\ pc \in {"kbi", "join_kbi", "print_kbi"} =>
            /\ messages' = messages
            /\ pc' \in {"kbi", "join_kbi", "print_kbi", "done"}
            /\ pc = "print_kbi" =>
                  (pc' = "done" /\ printEv' = "exit" /\ ~spinning /\ spinner_thread # "running")
       /\ pc = "done" => pc' = "done"
      ]_vars

\* C9 witness: the interrupt came while tool calls were being processed; the
\* spinner it found running has finished and the exit message is due
Witness_C9 ==
    /\ pc = "print_kbi"
    /\ spinner_thread = "finished"
    /\ Last(messages).role = "tool"

\* C10: the spinner is stopped (flag false, thread finished) whenever the
\* agent prints the response, an error, the exit message or debug output,
\* and it is not running when an iteration of run() ends.
Claim_C10 ==
    /\ printEv \in {"response", "error", "exit", "debug"} =>
          (~spinning /\ spinner_thread # "running")
    /\ pc \in {"prompt", "done"} => (~spinning /\ spinner_thread # "running")

\* C11: the history is append-only: every step of the agent leaves the
\* messages already in the history unchanged in content and position, so the
\* history before the step is a prefix of the history after it.
Thm_C11 ==
    [][/\ Len(messages') >= Len(messages)
       /\ SubSeq(messages', 1, Len(messages)) = messages]_vars

\* C11 witness: a later input has been appended behind the tool results of
\* an earlier one
Witness_C11 ==
    /\ pc = "chat"
    /\ chatCalls = 0
    /\ Len(messages) >= 5
    /\ Last(messages).role = "user"
    /\ messages[Len(messages) - 1].role = "tool"

\* the file content in the text that read_file(path) returned
ContentRead(path, text) == SubSeq(text, Len(path) + 3, Len(text))

\* C13: a successful write_file(p, c) creates the missing parent directories
\* of p and creates or overwrites the file, and a read_file(p) that follows
\* with no write to p in between returns the content c of the last write.
Claim_C13 ==
    /\ (pc = "written" /\ Succeeded(ret[1])) =>
          /\ Resolve(args[1]) \in DOMAIN fs
          /\ Parents(Resolve(args[1])) \subseteq dirs
    /\ (pc = "read" /\ Succeeded(ret[1]) /\ Resolve(args[1]) \in DOMAIN given) =>
          ContentRead(args[1], ret[1]) = given[Resolve(args[1])]

\* the k-th message behind the assistant turn is the result of its k-th call
AnsweredInOrder(k) ==
    /\ messages[3 + k].role = "tool"
    /\ messages[3 + k].tool_call_id = Some(k)

\* C12: the tool calls of an assistant turn are executed one at a time in
\* request order: call k+1 is decoded and dispatched only when the results
\* of the calls 1..k are in the history, the next Chat Client call is due
\* only when all calls of the turn are answered, and a later call of the
\* turn finds the files as the earlier calls left them.
Thm_C12 ==
    /\ pc \in {"decode", "exec", "append"} =>
          /\ Len(messages) = 3 + (toolIdx - 1)
          /\ \A k \in 1..(toolIdx - 1) : AnsweredInOrder(k)
    /\ pc = "chat" =>
          /\ Len(messages) = 3 + Len(messages[3].tool_calls[1])
          /\ \A k \in 1..Len(messages[3].tool_calls[1]) : AnsweredInOrder(k)
    /\ (/\ pc \in {"decode", "exec", "append"}
        /\ toolIdx = 2
        /\ messages[4].name = Some("write_file")
        /\ Succeeded(messages[4].content)) =>
          /\ << <<"s">> >> \in DOMAIN fs
          /\ fs[<< <<"s">> >>] = <<"l">>
          /\ (pc = "append" /\ called = Some("read_file") /\ Succeeded(tool_result)) =>
                tool_result = <<"Content of ", "s", ":\n", "l">>

\* C12 witness: the second call of the turn read the file that the first
\* call of the turn wrote
Witness_C12 ==
    /\ pc = "append"
    /\ toolIdx = 2
    /\ messages[4].name = Some("write_file")
    /\ Succeeded(messages[4].content)
    /\ called = Some("read_file")
    /\ tool_result = <<"Content of ", "s", ":\n", "l">>

RECURSIVE InNameOrder(_)
\* the names of a set in lexicographic order
InNameOrder(S) ==
    IF S = {} THEN <<>>
    ELSE LET m == CHOOSE x \in S : \A y \in S \ {x} : StrLess(x, y)
         IN  <<m>> \o InNameOrder(S \ {m})

\* the listing of the claim: the subdirectories by name, then the files by
\* name
ListingByName(path) ==
    LET ds == InNameOrder({n \in EntriesOf(path) : world[n]})
        fl == InNameOrder({n \in EntriesOf(path) : ~world[n]})
    IN  [i \in 1..Len(ds) |-> <<FCYAN, FOLDER>> \o ds[i] \o <<"/", RESET>>]
            \o [i \in 1..Len(fl) |-> <<FYELLOW, PAGE>> \o fl[i] \o <<RESET>>]

\* C14: for a directory list_files returns all its entries, every
\* subdirectory before every file, the subdirectories in lexicographic order
\* of their names and the files in lexicographic order of their names; for a
\* path that is not a directory it returns an error text.
Claim_C14 ==
    pc = "listed" =>
        /\ ~IsDir(args[1]) => ~Succeeded(ret[1])
        /\ Succeeded(ret[1]) =>
              ret[1] = <<"Contents of ">> \o Absolute(args[1]) \o <<":\n">>
                           \o Join("\n", ListingByName(args[1]))

\* the paths listed in the text that find_files returned for a pattern
RECURSIVE Listed(_)
Listed(text) ==
    IF text = <<>> THEN <<>>
    ELSE IF Head(text) = FYELLOW
         THEN LET n == CHOOSE k \in 1..Len(text) : text[k] = RESET /\ \A j \in 1..(k - 1) : text[j] # RESET
              IN  <<SubSeq(text, 2, n - 1)>> \o Listed(SubSeq(text, n + 1, Len(text)))
         ELSE Listed(Tail(text))
FoundList(pattern, text) == Listed(SubSeq(text, 8 + Len(pattern), Len(text)))

\* C15: find_files returns the 'no files found' message exactly when the
\* pattern matches nothing; otherwise the number of matches and then the
\* matches in sorted order, the number being the number of listed paths.
Claim_C15 ==
    (pc = "found" /\ Succeeded(ret[1])) =>
        LET matches == {n \in DOMAIN world : Match(args[1], n)}
            none == <<FYELLOW, "No files found matching '">> \o args[1] \o <<"'", RESET>>
        IN  /\ (ret[1] = none) <=> (matches = {})
            /\ matches # {} =>
                  /\ ret[1][3] = ToString(Cardinality(matches))
                  /\ FoundList(args[1], ret[1]) = InNameOrder(matches)

\* the search API key is set and not empty
HasKey == world.key \notin {<<>>, <<<<>>>>}

\* what web_search does without a key, and with a status other than 200
NoKeyNoRequest ==
    ~HasKey => (http = 0 /\ ret = <<<<"Error: Exa API key not configured.">>>>)
StatusReported ==
    (HasKey /\ http = 1 /\ ~world.fails /\ world.status # 200) =>
        ret = <<<<"Error: Exa API returned status code ", ToString(world.status)>>>>

\* C16: web_search sends an HTTP request only with a non-empty API key;
\* without one it returns the 'not configured' text and sends nothing; with
\* a key it sends exactly one request per invocation, and a status other
\* than 200 is returned as an error text naming the status, with no retry.
Claim_C16 ==
    pc = "searched" =>
        /\ NoKeyNoRequest
        /\ HasKey => http = 1
        /\ StatusReported

\* C16 (amended): as above, but with a key web_search sends at most one
\* request per invocation: exactly one when num_results converts to an
\* integer, and none, with an error text, when it does not.
Thm_C16 ==
    pc = "searched" =>
        /\ NoKeyNoRequest
        /\ HasKey =>
              /\ http <= 1
              /\ http = 1 <=> args[2] \in {JInt, JStr(<<"5">>)}
              /\ http = 0 => ret = <<<<"Error executing web search: ", "ValueError">>>>
        /\ StatusReported

\* C16 witness: with a key, one request was sent, the API answered 500 and
\* the status is what web_search returned
Witness_C16 ==
    /\ pc = "searched"
    /\ world.key = <<<<"k">>>>
    /\ world.status = 500
    /\ ~world.fails
    /\ http = 1
    /\ ret = <<<<"Error: Exa API returned status code ", "500">>>>

\* C17: for a cmd that passes the whitelist test run_command raises nothing
\* and returns a text: built from the captured stdout when the exit code is
\* 0 (the 'no output' text when stdout is empty), from the captured stderr
\* when it is not; stdout is not reported on another exit code than 0 and
\* stderr is not reported on exit code 0.
Thm_C17 ==
    (pc = "cmd_done" /\ FirstTokenAllowed(cmd)) =>
        /\ cmd_result # None
        /\ cmd_result[1] # <<>>
        /\ world.fails =>
              cmd_result[1] = <<FRED, "Error executing command '">> \o cmd \o <<"': ", "OSError", RESET>>
        /\ (~world.fails /\ world.returncode = 0 /\ world.stdout = <<>>) =>
              cmd_result[1] = <<FGREEN, "Command '">> \o cmd
                                  \o <<"' executed successfully with no output", RESET>>
        /\ (~world.fails /\ world.returncode = 0 /\ world.stdout # <<>>) =>
              cmd_result[1] = <<FGREEN, "Command output:", RESET, "\n">> \o world.stdout
        /\ (~world.fails /\ world.returncode # 0) =>
              cmd_result[1] = <<FRED, "Command failed with error:", RESET, "\n">> \o world.stderr
        /\ (~world.fails /\ world.returncode # 0) =>
              \A i \in 1..Len(cmd_result[1]) : cmd_result[1][i] # "o"
        /\ (~world.fails /\ world.returncode = 0) =>
              \A i \in 1..Len(cmd_result[1]) : cmd_result[1][i] # "e"

\* C17 witness: a permitted command left with another exit code than 0,
\* having written to both streams, and the text holds what it wrote to stderr
Witness_C17 ==
    /\ pc = "cmd_done"
    /\ cmd = <<"l", "s", " ", "s">>
    /\ ~world.fails
    /\ world.returncode = 1
    /\ world.stdout = <<"o">>
    /\ world.stderr = <<"e">>
    /\ cmd_result = <<<<FRED, "Command failed with error:", RESET, "\n", "e">>>>

\* C18: every program that the shell runs for a cmd that run_command
\* accepted is on the whitelist, also when cmd holds shell operators behind
\* a permitted first token.
Claim_C18 ==
    (pc = "cmd_done" /\ ~world.fails) =>
        \A line \in procs : ShellRuns(line) \subseteq Whitelist

\* C19: the tool names sent with every Chat Client call are the six names
\* that execute_tool dispatches, so a call naming an advertised tool never
\* gets the 'not implemented' result, and a name that is not advertised is
\* not dispatched.
Thm_C19 ==
    /\ advertised \in {None, Some(SixTools)}
    /\ pc \in {"decode", "exec", "append"} => advertised = Some(SixTools)
    /\ pc = "append" =>
          /\ tool_call.name \in advertised[1] =>
                (tool_result # NotImplementedText(tool_call.name) /\ called # None)
          /\ tool_call.name \notin advertised[1] =>
                (tool_result = NotImplementedText(tool_call.name) /\ called = None)

\* C19 witness: in a later round, a call of an advertised tool was
\* dispatched to its executor
Witness_C19 ==
    /\ pc = "append"
    /\ round >= 1
    /\ tool_call.name = "run_command"
    /\ advertised = Some(SixTools)
    /\ called = Some("run_command")

\* the spellings of the control inputs
ExitWords == {"exit", "Exit", "EXIT", "quit", "Quit", "QUIT"}
DebugWords == {"debug", "Debug", "DEBUG"}

\* a step of run() that reads an input: user_input' is what was typed
InputRead == pc = "prompt" /\ events' = events + 1 /\ pc' # "kbi"

\* nothing reaches the history, the model, the tools or the spinner
NothingDone ==
    /\ messages' = messages
    /\ chatCalls' = chatCalls
    /\ advertised' = advertised
    /\ procs' = procs
    /\ fs' = fs
    /\ http' = http
    /\ ~spinning /\ ~spinning'
    /\ spinner_thread # "running" /\ spinner_thread' # "running"

\* C20: an input equal to 'exit' or 'quit' in any case ends the loop and
\* 'debug' only toggles the debug flag; for both nothing is appended to the
\* history, no Chat Client call and no dispatch is made and the spinner is
\* not started; every other input is appended as exactly one user message
\* before the first Chat Client call for it.
Thm_C20 ==
    [][/\ (InputRead /\ user_input' \in ExitWords) =>
            (pc' = "done" /\ debug' = debug /\ NothingDone)
       /\ (InputRead /\ user_input' \in DebugWords) =>
            (pc' = "prompt" /\ debug' = ~debug /\ NothingDone)
       /\ (InputRead /\ user_input' \notin ExitWords \cup DebugWords) =>
            (pc' = "pui" /\ messages' = messages /\ chatCalls' = chatCalls /\ debug' = debug)
       /\ (pc = "pui" /\ pc' # "kbi" /\ pc' # "pui") =>
            /\ pc' = "chat"
            /\ chatCalls' = 0
            /\ messages' = Append(messages, Msg("user", <<user_input>>, None, None, None))
       /\ pc = "done" => messages' = messages
      ]_vars

\* C20 witness: 'Quit' was typed after an input had been processed; the loop
\* has ended
Witness_C20 ==
    /\ pc = "done"
    /\ user_input = "Quit"
    /\ printEv = "exit"
    /\ Len(messages) >= 3

====
